---- MODULE Spec2Model ----
(***************************************************************************)
(* Model of the Aadhaar field-extraction pipeline of src/ocr/aadhaar_ocr.py *)
(* Texts are TLA+ strings; a character is a string of length one.  The      *)
(* regular expressions of the source are translated pattern by pattern into *)
(* matchers over character positions (1-based; an end position is the index *)
(* of the first character after the match, 0 means "no match").             *)
(***************************************************************************)
EXTENDS Integers, Sequences, FiniteSets, TLC

VARIABLES result, text, pc, fields, record, norm1, norm2,
          request, call, fetched, posted, raised, response

vars == <<result, text, pc, fields, record, norm1, norm2,
          request, call, fetched, posted, raised, response>>

(* ------------------------------ bounds --------------------------------- *)

\* Largest number of OCR blocks the recognizer returns for one image.
MaxBlocks == 2

(* --------------------------- character classes ------------------------- *)

Ch(s, i) == SubSeq(s, i, i)

Min(S) == CHOOSE x \in S : \A y \in S : x <= y

Max(S) == CHOOSE x \in S : \A y \in S : x >= y

UpperLetters == "ABCDEFGHIJKLMNOPQRSTUVWXYZ"

LowerLetters == "abcdefghijklmnopqrstuvwxyz"

UpperSet == {Ch(UpperLetters, i) : i \in 1..26}

LowerSet == {Ch(LowerLetters, i) : i \in 1..26}

\* \d
Digits == {"0", "1", "2", "3", "4", "5", "6", "7", "8", "9"}

\* \s, and the characters str.strip() removes
Whitespace == {" ", "\n", "\t"}

IsDigit(c) == c \in Digits

IsSpace(c) == c \in Whitespace

\* \w
IsWord(c) == c \in Digits \/ c \in UpperSet \/ c \in LowerSet \/ c = "_"

ToUpperTable == [c \in LowerSet |-> Ch(UpperLetters, CHOOSE i \in 1..26 : Ch(LowerLetters, i) = c)]

ToLowerTable == [c \in UpperSet |-> Ch(LowerLetters, CHOOSE i \in 1..26 : Ch(UpperLetters, i) = c)]

ToUpper(c) == IF c \in LowerSet THEN ToUpperTable[c] ELSE c

ToLower(c) == IF c \in UpperSet THEN ToLowerTable[c] ELSE c

(* ----------------------------- str methods ----------------------------- *)

RECURSIVE UpperRange(_, _, _)
UpperRange(s, lo, hi) ==
  IF lo > hi THEN ""
  ELSE IF lo = hi THEN ToUpper(Ch(s, lo))
  ELSE LET mid == (lo + hi) \div 2
       IN UpperRange(s, lo, mid) \o UpperRange(s, mid + 1, hi)

\* str.upper()
Upper(s) == UpperRange(s, 1, Len(s))

RECURSIVE LowerRange(_, _, _)
LowerRange(s, lo, hi) ==
  IF lo > hi THEN ""
  ELSE IF lo = hi THEN ToLower(Ch(s, lo))
  ELSE LET mid == (lo + hi) \div 2
       IN LowerRange(s, lo, mid) \o LowerRange(s, mid + 1, hi)

\* str.lower()
Lower(s) == LowerRange(s, 1, Len(s))

\* str.capitalize(): first character upper-cased, the rest lower-cased
Capitalize(s) ==
  IF s = "" THEN "" ELSE ToUpper(Ch(s, 1)) \o LowerRange(s, 2, Len(s))

\* lit occurs in s starting at position p
StartsAt(s, p, lit) ==
  /\ p >= 1
  /\ p + Len(lit) - 1 <= Len(s)
  /\ SubSeq(s, p, p + Len(lit) - 1) = lit

\* the `in` operator on strings
Contains(s, lit) == \E p \in 1..(Len(s) - Len(lit) + 1) : StartsAt(s, p, lit)

\* str.find(), 1-based; 0 when lit does not occur
Find(s, lit) ==
  LET P == {p \in 1..(Len(s) - Len(lit) + 1) : StartsAt(s, p, lit)}
  IN IF P = {} THEN 0 ELSE Min(P)

\* str.strip()
Strip(s) ==
  LET P == {i \in 1..Len(s) : ~IsSpace(Ch(s, i))}
  IN IF P = {} THEN "" ELSE SubSeq(s, Min(P), Max(P))

RECURSIVE SplitFrom(_, _)
SplitFrom(s, from) ==
  IF from > Len(s) THEN <<>>
  ELSE LET N == {i \in from..Len(s) : Ch(s, i) = "\n"}
       IN IF N = {} THEN <<SubSeq(s, from, Len(s))>>
          ELSE <<SubSeq(s, from, Min(N) - 1)>> \o SplitFrom(s, Min(N) + 1)

\* str.splitlines()
SplitLines(s) == SplitFrom(s, 1)

RECURSIVE JoinLines(_)
\* "\n".join(lines)
JoinLines(lines) ==
  IF lines = <<>> THEN ""
  ELSE IF Len(lines) = 1 THEN lines[1]
  ELSE lines[1] \o "\n" \o JoinLines(Tail(lines))

(* ------------------------------ normalize_text ------------------------- *)

RECURSIVE ReplaceNewlines(_, _, _)
\* text.replace('\n', ' ')
ReplaceNewlines(s, lo, hi) ==
  IF lo > hi THEN ""
  ELSE IF lo = hi THEN (IF Ch(s, lo) = "\n" THEN " " ELSE Ch(s, lo))
  ELSE LET mid == (lo + hi) \div 2
       IN ReplaceNewlines(s, lo, mid) \o ReplaceNewlines(s, mid + 1, hi)

RECURSIVE CollapseSpaces(_, _, _)
\* re.sub(r'\s+', ' ', text): every maximal whitespace run becomes one space
CollapseSpaces(s, lo, hi) ==
  IF lo > hi THEN ""
  ELSE IF lo = hi
       THEN (IF IsSpace(Ch(s, lo))
             THEN (IF lo > 1 /\ IsSpace(Ch(s, lo - 1)) THEN "" ELSE " ")
             ELSE Ch(s, lo))
  ELSE LET mid == (lo + hi) \div 2
       IN CollapseSpaces(s, lo, mid) \o CollapseSpaces(s, mid + 1, hi)

normalize_text(t) ==
  LET t1 == ReplaceNewlines(t, 1, Len(t))
  IN CollapseSpaces(t1, 1, Len(t1))

(* ------------------------------ extract_name --------------------------- *)

\* [line.strip() for line in text.splitlines() if line.strip()]
NameLines(t) ==
  LET raw == SplitLines(t)
      stripped == [i \in 1..Len(raw) |-> Strip(raw[i])]
  IN SelectSeq(stripped, LAMBDA l : l # "")

\* extract_name taking the line right after the marker (lines[i + 1])
extract_name_NextLine(t) ==
  LET lines == NameLines(t)
      Hits == {i \in 1..Len(lines) : Lower(lines[i]) = "to" /\ i + 1 <= Len(lines)}
  IN IF Hits = {} THEN "" ELSE lines[Min(Hits) + 1]

\* extract_name letting a later marker line override an earlier one
extract_name_LastMarker(t) ==
  LET lines == NameLines(t)
      Hits == {i \in 1..Len(lines) : Lower(lines[i]) = "to" /\ i + 2 <= Len(lines)}
  IN IF Hits = {} THEN "" ELSE lines[Max(Hits) + 2]

\* The loop returns at the first marker line that has a line two places after
\* it, and falls through to "" otherwise.
extract_name(t) ==
  LET lines == NameLines(t)
      Hits == {i \in 1..Len(lines) : Lower(lines[i]) = "to" /\ i + 2 <= Len(lines)}
  IN IF Hits = {} THEN "" ELSE lines[Min(Hits) + 2]

(* ------------------------------ extract_gender ------------------------- *)

\* extract_gender testing "MALE" before "FEMALE"
extract_gender_MaleFirst(t) ==
  LET u == Upper(t)
  IN IF Contains(u, "MALE") THEN "MALE"
     ELSE IF Contains(u, "FEMALE") THEN "FEMALE"
     ELSE ""

extract_gender(t) ==
  LET u == Upper(t)
  IN IF Contains(u, "FEMALE") THEN "FEMALE"
     ELSE IF Contains(u, "MALE") THEN "MALE"
     ELSE ""

(* ------------------------------ DATE_REGEX ----------------------------- *)

NoDate == [d |-> "", m |-> "", y |-> "", end |-> 0]

\* position after the greedy \s* that starts at q
SkipSpaces(s, q) ==
  LET N == {i \in q..Len(s) : ~IsSpace(Ch(s, i))}
  IN IF N = {} THEN Len(s) + 1 ELSE Min(N)

\* \s*[/-]\s* at q: the position after it, 0 when the separator is missing
AfterSep(s, q) ==
  LET a == SkipSpaces(s, q)
  IN IF a <= Len(s) /\ Ch(s, a) \in {"/", "-"} THEN SkipSpaces(s, a + 1) ELSE 0

\* lengths that (0?[1-9]|[12][0-9]|3[01]) can consume at p, in the order the
\* regex engine tries them
DayOpts(s, p) ==
  LET c1 == IF p <= Len(s) THEN Ch(s, p) ELSE ""
      c2 == IF p + 1 <= Len(s) THEN Ch(s, p + 1) ELSE ""
      nz == Digits \ {"0"}
  IN (IF c1 = "0" /\ c2 \in nz THEN <<2>> ELSE <<>>)
     \o (IF c1 \in nz THEN <<1>> ELSE <<>>)
     \o (IF c1 \in {"1", "2"} /\ c2 \in Digits THEN <<2>> ELSE <<>>)
     \o (IF c1 = "3" /\ c2 \in {"0", "1"} THEN <<2>> ELSE <<>>)

\* lengths that (0?[1-9]|1[0-2]) can consume at p, in trial order
MonthOpts(s, p) ==
  LET c1 == IF p <= Len(s) THEN Ch(s, p) ELSE ""
      c2 == IF p + 1 <= Len(s) THEN Ch(s, p + 1) ELSE ""
      nz == Digits \ {"0"}
  IN (IF c1 = "0" /\ c2 \in nz THEN <<2>> ELSE <<>>)
     \o (IF c1 \in nz THEN <<1>> ELSE <<>>)
     \o (IF c1 = "1" /\ c2 \in {"0", "1", "2"} THEN <<2>> ELSE <<>>)

\* (19\d{2}|20\d{2}) at p
YearAt(s, p) ==
  /\ p >= 1
  /\ p + 3 <= Len(s)
  /\ SubSeq(s, p, p + 1) \in {"19", "20"}
  /\ IsDigit(Ch(s, p + 2))
  /\ IsDigit(Ch(s, p + 3))

\* month, separator and year from q on; the first month alternative that
\* lets the rest of the pattern match is taken
MonthYearAt(s, q) ==
  LET opts == MonthOpts(s, q)
      ok == SelectSeq(opts, LAMBDA n : YearAt(s, AfterSep(s, q + n)))
  IN IF ok = <<>> THEN NoDate
     ELSE LET n == ok[1]
              y == AfterSep(s, q + n)
          IN [d |-> "", m |-> SubSeq(s, q, q + n - 1),
              y |-> SubSeq(s, y, y + 3), end |-> y + 4]

\* DATE_REGEX.match at p: the three groups and the end position
DateAt(s, p) ==
  LET opts == DayOpts(s, p)
      Rest(n) == IF AfterSep(s, p + n) = 0 THEN NoDate
                 ELSE MonthYearAt(s, AfterSep(s, p + n))
      ok == SelectSeq(opts, LAMBDA n : Rest(n).end # 0)
  IN IF ok = <<>> THEN NoDate
     ELSE [Rest(ok[1]) EXCEPT !.d = SubSeq(s, p, p + ok[1] - 1)]

RECURSIVE DateFindAll(_, _)
\* DATE_REGEX.findall(s) from position `from` on: the non-overlapping
\* matches, left to right
DateFindAll(s, from) ==
  LET P == {p \in from..Len(s) : DateAt(s, p).end # 0}
  IN IF P = {} THEN <<>>
     ELSE LET m == DateAt(s, Min(P))
          IN <<m>> \o DateFindAll(s, m.end)

(* ------------------------------ extract_dob ---------------------------- *)

\* extract_dob returning the first match (dates[0])
extract_dob_First(t) ==
  LET clean == normalize_text(t)
      dates == DateFindAll(clean, 1)
  IN IF dates = <<>> THEN ""
     ELSE dates[1].d \o "/" \o dates[1].m \o "/" \o dates[1].y

\* extract_dob without the guard for "no match", joining empty groups
extract_dob_Unguarded(t) ==
  LET clean == normalize_text(t)
      dates == DateFindAll(clean, 1)
      last == IF dates = <<>> THEN NoDate ELSE dates[Len(dates)]
  IN last.d \o "/" \o last.m \o "/" \o last.y

extract_dob(t) ==
  LET clean == normalize_text(t)
      dates == DateFindAll(clean, 1)
  IN IF dates = <<>> THEN ""
     ELSE LET last == dates[Len(dates)]
          IN last.d \o "/" \o last.m \o "/" \o last.y

(* ------------------------- extract_aadhaar_number ---------------------- *)

\* n digits from position a on
DigitsAt(s, a, n) ==
  /\ a >= 1
  /\ a + n - 1 <= Len(s)
  /\ \A i \in a..(a + n - 1) : IsDigit(Ch(s, i))

\* \s? at a: the whitespace character is consumed when there is one (the
\* digit that must follow cannot match it, so the empty alternative only
\* succeeds when there is none)
AfterOptSpace(s, a) == IF a <= Len(s) /\ IsSpace(Ch(s, a)) THEN a + 1 ELSE a

\* [2-9]\d{3}\s?\d{4}\s?\d{4} at q: the end position, 0 when it fails
SpacedNumberAt(s, q) ==
  IF ~(DigitsAt(s, q, 4) /\ Ch(s, q) \notin {"0", "1"}) THEN 0
  ELSE LET b == AfterOptSpace(s, q + 4)
       IN IF ~DigitsAt(s, b, 4) THEN 0
          ELSE LET c == AfterOptSpace(s, b + 4)
               IN IF DigitsAt(s, c, 4) THEN c + 4 ELSE 0

\* [^\d]{0,20} at q followed by the spaced number: the greedy quantifier
\* gives back characters until the rest matches, so the longest gap that
\* works is the one taken.  The start of the number, 0 on failure.
AadhaarGapThenNumber(s, q) ==
  LET K == {k \in 0..20 :
              /\ q + k - 1 <= Len(s)
              /\ \A i \in q..(q + k - 1) : ~IsDigit(Ch(s, i))
              /\ SpacedNumberAt(s, q + k) # 0}
  IN IF K = {} THEN 0 ELSE q + Max(K)

AadhaarKeywords == <<"aadhaar", "your aadhaar">>

\* keyword_pattern.match at p (low is s lower-cased, for re.IGNORECASE):
\* [start, end) of group 2, <<0, 0>> on failure.  An alternative of the
\* keyword group whose continuation fails is given up for the next one.
AadhaarKeywordAt(s, low, p) ==
  LET Try(w) == IF StartsAt(low, p, w)
                THEN AadhaarGapThenNumber(s, p + Len(w))
                ELSE 0
      ok == SelectSeq(AadhaarKeywords, LAMBDA w : Try(w) # 0)
  IN IF ok = <<>> THEN <<0, 0>>
     ELSE <<Try(ok[1]), SpacedNumberAt(s, Try(ok[1]))>>

\* keyword_pattern.search(s): group 2 of the leftmost match, "" when none
AadhaarKeywordSearch(s) ==
  LET low == Lower(s)
      P == {p \in 1..Len(s) : AadhaarKeywordAt(s, low, p)[1] # 0}
  IN IF P = {} THEN ""
     ELSE LET m == AadhaarKeywordAt(s, low, Min(P))
          IN SubSeq(s, m[1], m[2] - 1)

RECURSIVE RemoveSpaces(_, _, _)
\* re.sub(r'\s', '', s)
RemoveSpaces(s, lo, hi) ==
  IF lo > hi THEN ""
  ELSE IF lo = hi THEN (IF IsSpace(Ch(s, lo)) THEN "" ELSE Ch(s, lo))
  ELSE LET mid == (lo + hi) \div 2
       IN RemoveSpaces(s, lo, mid) \o RemoveSpaces(s, mid + 1, hi)

\* f"{num[:4]} {num[4:8]} {num[8:]}" (slices clamp to the string)
Grouped(num) ==
  LET n == Len(num)
      Slice(a, b) == IF a > n THEN ""
                     ELSE SubSeq(num, a, IF b < n THEN b ELSE n)
  IN Slice(1, 4) \o " " \o Slice(5, 8) \o " " \o Slice(9, n)

\* \b at position p (between character p-1 and character p)
WordBoundary(s, p) ==
  LET before == p > 1 /\ p - 1 <= Len(s) /\ IsWord(Ch(s, p - 1))
      after == p >= 1 /\ p <= Len(s) /\ IsWord(Ch(s, p))
  IN before # after

\* the bare pattern with \d in place of [2-9]
BareAadhaarAt_AnyFirstDigit(s, p) ==
  /\ WordBoundary(s, p)
  /\ DigitsAt(s, p, 12)
  /\ WordBoundary(s, p + 12)

\* \b[2-9]\d{11}\b at p
BareAadhaarAt(s, p) ==
  /\ WordBoundary(s, p)
  /\ DigitsAt(s, p, 12)
  /\ Ch(s, p) \notin {"0", "1"}
  /\ WordBoundary(s, p + 12)

RECURSIVE BareAadhaarFindAll(_, _)
\* re.findall(r'\b[2-9]\d{11}\b', s) from position `from` on
BareAadhaarFindAll(s, from) ==
  LET P == {p \in from..Len(s) : BareAadhaarAt(s, p)}
  IN IF P = {} THEN <<>>
     ELSE <<SubSeq(s, Min(P), Min(P) + 11)>> \o BareAadhaarFindAll(s, Min(P) + 12)

\* the window taken around the last occurrence of num (rfind) instead
Context_LastOccurrence(s, num) ==
  LET f == Max({p \in 1..Len(s) : StartsAt(s, p, num)})
      lo == IF f - 5 < 1 THEN 1 ELSE f - 5
      hi == IF f + Len(num) + 4 > Len(s) THEN Len(s) ELSE f + Len(num) + 4
  IN SubSeq(s, lo, hi)

\* clean_text[max(0, find(num)-5) : find(num)+len(num)+5]
Context(s, num) ==
  LET f == Find(s, num)
      lo == IF f - 5 < 1 THEN 1 ELSE f - 5
      hi == IF f + Len(num) + 4 > Len(s) THEN Len(s) ELSE f + Len(num) + 4
  IN SubSeq(s, lo, hi)

\* re.search(r'\d{16}', s)
HasDigitRun16(s) == \E p \in 1..Len(s) : DigitsAt(s, p, 16)

\* \b[2-9]\d{3}\s\d{4}\s\d{4}\b at p
GroupedAadhaarAt(s, p) ==
  /\ WordBoundary(s, p)
  /\ DigitsAt(s, p, 4)
  /\ Ch(s, p) \notin {"0", "1"}
  /\ p + 13 <= Len(s)
  /\ IsSpace(Ch(s, p + 4))
  /\ DigitsAt(s, p + 5, 4)
  /\ IsSpace(Ch(s, p + 9))
  /\ DigitsAt(s, p + 10, 4)
  /\ WordBoundary(s, p + 14)

\* tier 1: the number next to the keyword, regrouped
AadhaarTier1(clean) ==
  LET g == AadhaarKeywordSearch(clean)
  IN IF g = "" THEN "" ELSE Grouped(RemoveSpaces(g, 1, Len(g)))

\* tier 2: the first bare candidate whose context holds no 16-digit run
AadhaarTier2(clean) ==
  LET candidates == BareAadhaarFindAll(clean, 1)
      kept == SelectSeq(candidates, LAMBDA num : ~HasDigitRun16(Context(clean, num)))
  IN IF kept = <<>> THEN "" ELSE Grouped(kept[1])

\* tier 3: the first already grouped number, verbatim
AadhaarTier3(clean) ==
  LET P == {p \in 1..Len(clean) : GroupedAadhaarAt(clean, p)}
  IN IF P = {} THEN "" ELSE SubSeq(clean, Min(P), Min(P) + 13)

\* extract_aadhaar_number trying the bare scan before the keyword
extract_aadhaar_number_BareFirst(t) ==
  LET clean == normalize_text(t)
      t1 == AadhaarTier1(clean)
      t2 == AadhaarTier2(clean)
  IN IF t2 # "" THEN t2
     ELSE IF t1 # "" THEN t1
     ELSE AadhaarTier3(clean)

extract_aadhaar_number(t) ==
  LET clean == normalize_text(t)
      t1 == AadhaarTier1(clean)
      t2 == AadhaarTier2(clean)
  IN IF t1 # "" THEN t1
     ELSE IF t2 # "" THEN t2
     ELSE AadhaarTier3(clean)

(* ------------------------- extract_mobile_number ----------------------- *)

MobileKeywords == <<"mobile", "moblle", "moblie">>

\* [6-9]\d{9} at q: the end position, 0 when it fails
MobileNumberAt(s, q) ==
  IF DigitsAt(s, q, 10) /\ Ch(s, q) \in {"6", "7", "8", "9"} THEN q + 10 ELSE 0

\* [^\d]{0,10} at q followed by the mobile number: the start of the number,
\* 0 on failure
MobileGapThenNumber(s, q) ==
  LET K == {k \in 0..10 :
              /\ q + k - 1 <= Len(s)
              /\ \A i \in q..(q + k - 1) : ~IsDigit(Ch(s, i))
              /\ MobileNumberAt(s, q + k) # 0}
  IN IF K = {} THEN 0 ELSE q + Max(K)

\* the keyword regex at p (low is s lower-cased): the start of group 2,
\* 0 on failure
MobileKeywordAt(s, low, p) ==
  LET Try(w) == IF StartsAt(low, p, w)
                THEN MobileGapThenNumber(s, p + Len(w))
                ELSE 0
      ok == SelectSeq(MobileKeywords, LAMBDA w : Try(w) # 0)
  IN IF ok = <<>> THEN 0 ELSE Try(ok[1])

\* \b[6-9]\d{9}\b at p
BareMobileAt(s, p) ==
  /\ WordBoundary(s, p)
  /\ MobileNumberAt(s, p) # 0
  /\ WordBoundary(s, p + 10)

\* extract_mobile_number trying the bare number before the keyword
extract_mobile_number_BareFirst(t) ==
  LET clean == normalize_text(t)
      low == Lower(clean)
      K == {p \in 1..Len(clean) : MobileKeywordAt(clean, low, p) # 0}
      B == {p \in 1..Len(clean) : BareMobileAt(clean, p)}
  IN IF B # {} THEN SubSeq(clean, Min(B), Min(B) + 9)
     ELSE IF K # {}
     THEN LET g == MobileKeywordAt(clean, low, Min(K)) IN SubSeq(clean, g, g + 9)
     ELSE ""

extract_mobile_number(t) ==
  LET clean == normalize_text(t)
      low == Lower(clean)
      K == {p \in 1..Len(clean) : MobileKeywordAt(clean, low, p) # 0}
      B == {p \in 1..Len(clean) : BareMobileAt(clean, p)}
  IN IF K # {}
     THEN LET g == MobileKeywordAt(clean, low, Min(K)) IN SubSeq(clean, g, g + 9)
     ELSE IF B # {} THEN SubSeq(clean, Min(B), Min(B) + 9)
     ELSE ""

(* ------------------------------ extract_fields ------------------------- *)

\* the pincode pattern without its word boundaries (\d{6})
PincodeAt_NoBoundary(s, p) == DigitsAt(s, p, 6)

\* \b\d{6}\b at p
PincodeAt(s, p) ==
  /\ WordBoundary(s, p)
  /\ DigitsAt(s, p, 6)
  /\ WordBoundary(s, p + 6)

\* re.search(r'\b\d{6}\b', text) on the text as given, lines and all
PincodeSearch(t) ==
  LET P == {p \in 1..Len(t) : PincodeAt(t, p)}
  IN IF P = {} THEN "" ELSE SubSeq(t, Min(P), Min(P) + 5)

\* the dictionary extract_fields starts from
EmptyFields ==
  [Name |-> "", Adhaar_Number |-> "", GENDER |-> "", DOB |-> "",
   Mobile |-> "", Pincode |-> ""]

extract_fields(t) ==
  [Name |-> extract_name(t),
   Adhaar_Number |-> extract_aadhaar_number(t),
   GENDER |-> extract_gender(t),
   DOB |-> extract_dob(t),
   Mobile |-> extract_mobile_number(t),
   Pincode |-> PincodeSearch(t)]

(* ------------------------------ normalize_aadhaar ---------------------- *)

RECURSIVE RemoveNonDigits(_, _, _)
\* re.sub(r"\D", "", s)
RemoveNonDigits(s, lo, hi) ==
  IF lo > hi THEN ""
  ELSE IF lo = hi THEN (IF IsDigit(Ch(s, lo)) THEN Ch(s, lo) ELSE "")
  ELSE LET mid == (lo + hi) \div 2
       IN RemoveNonDigits(s, lo, mid) \o RemoveNonDigits(s, mid + 1, hi)

\* normalize_aadhaar with \s in place of \D
normalize_aadhaar_SpacesOnly(aadhaar_str) ==
  IF aadhaar_str = "" THEN "" ELSE RemoveSpaces(aadhaar_str, 1, Len(aadhaar_str))

normalize_aadhaar(aadhaar_str) ==
  IF aadhaar_str = "" THEN "" ELSE RemoveNonDigits(aadhaar_str, 1, Len(aadhaar_str))

(* ------------------------------ run_aadhaar_ocr ------------------------ *)

\* the dictionary run_aadhaar_ocr returns for the fields f
OcrRecord(f) ==
  [aadhaar_number |-> normalize_aadhaar(f.Adhaar_Number),
   full_name |-> f.Name,
   gender |-> Capitalize(f.GENDER),
   dob |-> f.DOB,
   mobile_number |-> f.Mobile,
   pincode |-> f.Pincode]

(* ------------------------------ OCR results ---------------------------- *)

\* The end-to-end scenario of the specification, as one recognized block.
ScenarioBlock ==
  <<"Government of India", "To", "Ramesh Kumar", "S/O Suresh",
    "DOB: 23-11-1990", "MALE", "Mobile: 9876543210", "Your Aadhaar No.",
    "2345 6789 0123", "500001">>

\* The blocks of recognized lines the recognizer may return.
Blocks ==
  { <<"To">>,
    <<" tO ", "", "Ramesh Kumar", "S/O Suresh">>,
    <<"Female">>,
    <<"MALE">>,
    <<"12/05/2020 ... 23/11/1990">>,
    <<"12/05/2020/11/1990">>,
    <<"Issued 5 - 7 -2012", "32/13/1890">>,
    <<"Your Aadhaar No.", "2345 6789 0123">>,
    <<"987654321098">>,
    <<"VID: 9923456789012345">>,
    <<"234567890123">>,
    <<"AADHAAR 123456789012">>,
    <<"Mobile and Aadhaar of the resident are">>,
    <<"3456 7890 1234">>,
    <<"Mobile: 9876543210">>,
    <<"Moblle : 9123456789">>,
    <<"8123456789">>,
    <<"500001">> }

\* ocr.ocr(img): a sequence of blocks, each a sequence of recognized lines;
\* the scenario is recognized as a single block
OcrResults ==
  {<<ScenarioBlock>>} \cup UNION {[1..n -> Blocks] : n \in 0..MaxBlocks}

RECURSIVE AllLines(_)
\* for block in result: for line in block: lines.append(...)
AllLines(res) ==
  IF res = <<>> THEN <<>> ELSE Head(res) \o AllLines(Tail(res))

(* ------------------------------ state machine -------------------------- *)

NoRecord == <<>>

\* Python's None, and a value that is present
None == <<>>
Some(v) == <<v>>

\* no request is being served by the /ocr/aadhaar handler
NoRouterCall ==
  /\ request = None
  /\ call = None
  /\ fetched = None
  /\ posted = None
  /\ raised = None
  /\ response = None

Init ==
  /\ result \in OcrResults
  /\ text = ""
  /\ pc = "ocr"
  /\ fields = EmptyFields
  /\ record = NoRecord
  /\ norm1 = ""
  /\ norm2 = ""
  /\ NoRouterCall

\* extract_text: the recognized lines joined by newlines
ExtractText ==
  /\ pc = "ocr"
  /\ text' = JoinLines(AllLines(result))
  /\ pc' = "text"
  /\ UNCHANGED <<result, fields, record, norm1, norm2, request, call, fetched, posted, raised, response>>

\* fields = extract_fields(text)
ExtractFields ==
  /\ pc = "text"
  /\ fields' = extract_fields(text)
  /\ pc' = "fields"
  /\ UNCHANGED <<result, text, record, norm1, norm2, request, call, fetched, posted, raised, response>>

\* the return statement of run_aadhaar_ocr
RunAadhaarOcr ==
  /\ pc = "fields"
  /\ record' = OcrRecord(fields)
  /\ pc' = "done"
  /\ UNCHANGED <<result, text, fields, norm1, norm2, request, call, fetched, posted, raised, response>>

Next == ExtractText \/ ExtractFields \/ RunAadhaarOcr

Spec == Init /\ [][Next]_vars

(* --------------------- normalize_aadhaar on its own -------------------- *)

\* The strings normalize_aadhaar is called with: every text the recognizer
\* can produce (letters, digits, punctuation, spaces and newlines).
NormalizeInputs == {JoinLines(AllLines(r)) : r \in OcrResults}

InitNormalize ==
  /\ result = <<>>
  /\ text \in NormalizeInputs
  /\ pc = "call"
  /\ fields = EmptyFields
  /\ record = NoRecord
  /\ norm1 = ""
  /\ norm2 = ""
  /\ NoRouterCall

\* norm1 = normalize_aadhaar(text)
NormalizeAadhaar ==
  /\ pc = "call"
  /\ norm1' = normalize_aadhaar(text)
  /\ pc' = "once"
  /\ UNCHANGED <<result, text, fields, record, norm2, request, call, fetched, posted, raised, response>>

\* norm2 = normalize_aadhaar(norm1)
NormalizeAadhaarAgain ==
  /\ pc = "once"
  /\ norm2' = normalize_aadhaar(norm1)
  /\ pc' = "twice"
  /\ UNCHANGED <<result, text, fields, record, norm1, request, call, fetched, posted, raised, response>>

NextNormalize == NormalizeAadhaar \/ NormalizeAadhaarAgain

SpecNormalize == InitNormalize /\ [][NextNormalize]_vars

(* ------------- POST /ocr/aadhaar and the remote OCR client -------------- *)

\* Python truthiness of an optional string or bytes value
Truthy(o) == o # None /\ o[1] # ""

\* a or b
Or(o, default) == IF Truthy(o) THEN o[1] ELSE default

\* what an uploaded file can hold, the empty upload included
FileContents == {"", "JPEG-A"}

Filenames == {None, Some(""), Some("card.jpg")}

\* the UploadFile objects, or None when the form has no file
Files == {None} \cup {Some([content |-> c, filename |-> f]) : c \in FileContents, f \in Filenames}

ImageUrls == {None, Some(""), Some("https://host/card.jpg")}

\* what a download can return
UrlContents == {"", "JPEG-B"}

\* the JSON bodies of the remote OCR service
OcrJsons ==
  { [aadhaar_number |-> "2345 6789 0123", full_name |-> "Ramesh Kumar",
     gender |-> "Male", dob |-> "23/11/1990", mobile_number |-> "9876543210",
     pincode |-> "500001"],
    [full_name |-> "Ramesh Kumar", dob |-> ""] }

Requests == [file : Files, image_url : ImageUrls, save : BOOLEAN]

\* ocr_json.get(key) or default
GetOr(json, key, default) ==
  IF key \in DOMAIN json /\ json[key] # "" THEN json[key] ELSE default

\* the payload built from ocr_json when save is true
Payload(json, req) ==
  [aadhaar_number |-> GetOr(json, "aadhaar_number", ""),
   full_name |-> GetOr(json, "full_name", ""),
   gender |-> GetOr(json, "gender", ""),
   dob |-> IF "dob" \in DOMAIN json /\ json["dob"] # "" THEN Some(json["dob"]) ELSE None,
   mobile_number |-> GetOr(json, "mobile_number", ""),
   pincode |-> GetOr(json, "pincode", ""),
   aadhaar_image_url |->
     IF Truthy(req.image_url) THEN req.image_url[1]
     ELSE IF req.file = None THEN ""
     ELSE Or(req.file[1].filename, "")]

\* the multipart form call_aadhaar_ocr_from_bytes posts
PostedFiles(file_bytes, filename) ==
  [filename |-> Or(filename, "upload.jpg"), file_bytes |-> file_bytes]

InitRouter ==
  /\ result = <<>>
  /\ text = ""
  /\ pc = "handler"
  /\ fields = EmptyFields
  /\ record = NoRecord
  /\ norm1 = ""
  /\ norm2 = ""
  /\ request \in Requests
  /\ call = None
  /\ fetched = None
  /\ posted = None
  /\ raised = None
  /\ response = None

\* the handler picks its input: the file if there is one, else the url,
\* else it answers 400
aadhaar_ocr_GetBytes ==
  /\ pc = "handler"
  /\ IF request.file # None
     THEN /\ call' = Some([image_bytes |-> Some(request.file[1].content),
                           filename |-> request.file[1].filename,
                           image_url |-> None])
          /\ pc' = "client"
          /\ UNCHANGED response
     ELSE IF Truthy(request.image_url)
     THEN /\ call' = Some([image_bytes |-> None,
                           filename |-> None,
                           image_url |-> request.image_url])
          /\ pc' = "client"
          /\ UNCHANGED response
     ELSE /\ response' = Some([status_code |-> 400, detail |-> "Provide file or image_url"])
          /\ pc' = "responded"
          /\ UNCHANGED call
  /\ UNCHANGED <<result, text, fields, record, norm1, norm2, request, fetched, posted, raised>>

\* call_aadhaar_ocr chooses between the bytes, the url and ValueError
call_aadhaar_ocr ==
  /\ pc = "client"
  /\ IF Truthy(call[1].image_bytes)
     THEN /\ posted' = Some(PostedFiles(call[1].image_bytes[1], Some(Or(call[1].filename, "upload.jpg"))))
          /\ pc' = "post"
          /\ UNCHANGED raised
     ELSE IF Truthy(call[1].image_url)
     THEN /\ pc' = "download"
          /\ UNCHANGED <<posted, raised>>
     ELSE /\ raised' = Some("Provide image_bytes or image_url")
          /\ pc' = "except"
          /\ UNCHANGED posted
  /\ UNCHANGED <<result, text, fields, record, norm1, norm2, request, call, fetched, response>>

\* download_image_to_bytes: the content of the url, or the error of
\* raise_for_status; the content goes to call_aadhaar_ocr_from_bytes
download_image_to_bytes ==
  /\ pc = "download"
  /\ \E ok \in BOOLEAN :
       IF ok
       THEN \E b \in UrlContents :
              /\ fetched' = Some(b)
              /\ posted' = Some(PostedFiles(b, Some(Or(call[1].filename, "upload.jpg"))))
              /\ pc' = "post"
              /\ UNCHANGED raised
       ELSE /\ raised' = Some("404 Client Error")
            /\ pc' = "except"
            /\ UNCHANGED <<fetched, posted>>
  /\ UNCHANGED <<result, text, fields, record, norm1, norm2, request, call, response>>

\* call_aadhaar_ocr_from_bytes: the answer of the remote OCR service
call_aadhaar_ocr_from_bytes ==
  /\ pc = "post"
  /\ \E status_code \in {200, 503} :
       IF status_code # 200
       THEN /\ raised' = Some("OCR service failed (503)")
            /\ pc' = "except"
            /\ UNCHANGED response
       ELSE \E ocr_json \in OcrJsons :
              /\ response' = Some([status_code |-> 200, ocr_json |-> ocr_json])
              /\ pc' = "save"
              /\ UNCHANGED raised
  /\ UNCHANGED <<result, text, fields, record, norm1, norm2, request, call, fetched, posted>>

\* the rest of the handler: the OCR JSON as it is, or the outcome of saving
aadhaar_ocr_Save ==
  /\ pc = "save"
  /\ IF ~request.save
     THEN /\ pc' = "responded"
          /\ UNCHANGED <<response, raised>>
     ELSE \E outcome \in {"invalid", "saved", "error"} :
            IF outcome = "invalid"
            THEN /\ response' = Some([status_code |-> 200,
                                      ocr_result |-> response[1].ocr_json,
                                      save_error |-> "Failed to validate PersonCreate"])
                 /\ pc' = "responded"
                 /\ UNCHANGED raised
            ELSE IF outcome = "saved"
            THEN /\ response' = Some([status_code |-> 200,
                                      ocr_result |-> response[1].ocr_json,
                                      person |-> Payload(response[1].ocr_json, request)])
                 /\ pc' = "responded"
                 /\ UNCHANGED raised
            ELSE /\ raised' = Some("database error")
                 /\ response' = None
                 /\ pc' = "except"
  /\ UNCHANGED <<result, text, fields, record, norm1, norm2, request, call, fetched, posted>>

\* except Exception as e: raise HTTPException(500, detail=str(e))
aadhaar_ocr_Except ==
  /\ pc = "except"
  /\ response' = Some([status_code |-> 500, detail |-> raised[1]])
  /\ pc' = "responded"
  /\ UNCHANGED <<result, text, fields, record, norm1, norm2, request, call, fetched, posted, raised>>

NextRouter ==
  \/ aadhaar_ocr_GetBytes
  \/ call_aadhaar_ocr
  \/ download_image_to_bytes
  \/ call_aadhaar_ocr_from_bytes
  \/ aadhaar_ocr_Save
  \/ aadhaar_ocr_Except

SpecRouter == InitRouter /\ [][NextRouter]_vars

(* ================================ claims =============================== *)

\* extract_fields has returned
Extracted == pc = "fields"

AllDigits(s) == \A i \in 1..Len(s) : IsDigit(Ch(s, i))

\* the text of the end-to-end scenario
ScenarioText ==
  "Government of India\nTo\nRamesh Kumar\nS/O Suresh\nDOB: 23-11-1990\nMALE\nMobile: 9876543210\nYour Aadhaar No.\n2345 6789 0123\n500001"

\* C1 as stated: the scenario text yields identifier "2345 6789 0123" and
\* name "Ramesh Kumar" (with gender Male, dob 23/11/1990, mobile 9876543210,
\* pincode 500001).
C1_AsStated ==
  (pc = "done" /\ text = ScenarioText) =>
    record = [aadhaar_number |-> "2345 6789 0123", full_name |-> "Ramesh Kumar",
              gender |-> "Male", dob |-> "23/11/1990",
              mobile_number |-> "9876543210", pincode |-> "500001"]

\* C1 (amended): on the scenario text extract_fields finds the identifier
\* "2345 6789 0123" and the name "S/O Suresh" (the line two places after
\* "To"), and the record returned carries the identifier stripped to
\* "234567890123", name "S/O Suresh", gender "Male", dob "23/11/1990",
\* mobile "9876543210" and pincode "500001".
C1_Scenario ==
  /\ (pc \in {"fields", "done"} /\ text = ScenarioText) =>
       fields = [Name |-> "S/O Suresh", Adhaar_Number |-> "2345 6789 0123",
                 GENDER |-> "MALE", DOB |-> "23/11/1990",
                 Mobile |-> "9876543210", Pincode |-> "500001"]
  /\ (pc = "done" /\ text = ScenarioText) =>
       record = [aadhaar_number |-> "234567890123", full_name |-> "S/O Suresh",
                 gender |-> "Male", dob |-> "23/11/1990",
                 mobile_number |-> "9876543210", pincode |-> "500001"]

C1_Witness == pc = "done" /\ text = ScenarioText /\ record.full_name # ""

\* dddd dddd dddd with a first digit in 2..9
IsGroupedIdentifier(s) ==
  /\ Len(s) = 14
  /\ \A i \in 1..14 : IF i \in {5, 10} THEN Ch(s, i) = " " ELSE IsDigit(Ch(s, i))
  /\ Ch(s, 1) \notin {"0", "1"}

\* C2: the identifier extract_aadhaar_number returns, and what each of its
\* three tiers yields on the flattened text, is either empty or of the form
\* dddd dddd dddd with a first digit in 2..9.
C2_IdentifierShape ==
  Extracted =>
    LET clean == normalize_text(text)
    IN \A r \in {fields.Adhaar_Number, AadhaarTier1(clean),
                 AadhaarTier2(clean), AadhaarTier3(clean)} :
         r = "" \/ IsGroupedIdentifier(r)

\* a text whose identifier comes from the third tier, with a number starting
\* with 1 next to the keyword
C2_Witness ==
  /\ pc = "fields"
  /\ fields.Adhaar_Number # ""
  /\ AadhaarTier1(normalize_text(text)) = ""
  /\ AadhaarTier2(normalize_text(text)) = ""
  /\ Contains(text, "AADHAAR 123456789012")

\* A 12-digit number starting with 2..9 occupies [q, e) of s, written with an
\* optional whitespace character after its 4th and after its 8th digit.
IsSpacedNumber(s, q, e) ==
  \E a \in {0, 1} : \E b \in {0, 1} :
    /\ e = q + 12 + a + b
    /\ e - 1 <= Len(s)
    /\ \A i \in q..(e - 1) :
         IF (a = 1 /\ i = q + 4) \/ (b = 1 /\ i = q + 8 + a)
         THEN IsSpace(Ch(s, i))
         ELSE IsDigit(Ch(s, i))
    /\ Ch(s, q) \notin {"0", "1"}

\* The number at [q, e) is keyword-anchored: "aadhaar" (any case) ends at
\* most 20 characters before q and only non-digits lie in between.
IsKeywordAnchored(s, q, e) ==
  /\ IsSpacedNumber(s, q, e)
  /\ \E p \in 1..(q - 7) :
       /\ q - (p + 7) <= 20
       /\ \A i \in 1..7 : ToLower(Ch(s, p + i - 1)) = Ch("aadhaar", i)
       /\ \A i \in (p + 7)..(q - 1) : ~IsDigit(Ch(s, i))

\* the positions of s where a keyword-anchored number starts
KeywordAnchored(s) ==
  {q \in 1..Len(s) : \E e \in (q + 12)..(q + 14) : IsKeywordAnchored(s, q, e)}

\* the digits of the keyword-anchored number that starts at q
AnchoredDigits(s, q) ==
  LET e == CHOOSE e \in (q + 12)..(q + 14) : IsKeywordAnchored(s, q, e)
  IN RemoveNonDigits(s, q, e - 1)

\* a standalone run of exactly 12 digits starting with 2..9 begins at c
IsStandalone12(s, c) ==
  /\ c + 11 <= Len(s)
  /\ \A i \in c..(c + 11) : IsDigit(Ch(s, i))
  /\ Ch(s, c) \notin {"0", "1"}
  /\ (c = 1 \/ ~IsWord(Ch(s, c - 1)))
  /\ (c + 12 > Len(s) \/ ~IsWord(Ch(s, c + 12)))

Standalone12(s) == {c \in 1..Len(s) : IsStandalone12(s, c)}

\* the digits of s, in order
DigitsOf(s) == RemoveNonDigits(s, 1, Len(s))

\* C3: when the flattened text holds a keyword-anchored number and a
\* standalone 12-digit candidate with other digits, the identifier returned
\* is the (leftmost) keyword-anchored number regrouped as 4+4+4.
C3_KeywordWins ==
  Extracted =>
    LET clean == normalize_text(text)
        K == KeywordAnchored(clean)
        num == AnchoredDigits(clean, Min(K))
    IN (K # {} /\ \E c \in Standalone12(clean) : SubSeq(clean, c, c + 11) # num)
         => /\ IsGroupedIdentifier(fields.Adhaar_Number)
            /\ DigitsOf(fields.Adhaar_Number) = num

\* a different standalone candidate stands before the keyword-anchored number
C3_Witness ==
  /\ pc = "fields"
  /\ LET clean == normalize_text(text)
         K == KeywordAnchored(clean)
     IN /\ K # {}
        /\ \E c \in Standalone12(clean) :
             /\ c < Min(K)
             /\ SubSeq(clean, c, c + 11) # AnchoredDigits(clean, Min(K))
  /\ fields.Adhaar_Number = "2345 6789 0123"

\* the window from 5 characters before the candidate at c to 5 after it
WindowAround(s, c) ==
  SubSeq(s, IF c - 5 < 1 THEN 1 ELSE c - 5,
            IF c + 16 > Len(s) THEN Len(s) ELSE c + 16)

\* the window holds a run of 16 digits
Holds16Digits(w) ==
  \E p \in 1..(Len(w) - 15) : \A i \in p..(p + 15) : IsDigit(Ch(w, i))

\* C4 as stated: with no keyword-anchored number, the identifier is the
\* first standalone 12-digit candidate whose own surrounding window (5
\* characters before it to 5 after it) holds no 16-digit run, regrouped.
C4_AsStated ==
  Extracted =>
    LET clean == normalize_text(text)
        S == {c \in Standalone12(clean) : ~Holds16Digits(WindowAround(clean, c))}
    IN (KeywordAnchored(clean) = {} /\ S # {})
         => /\ IsGroupedIdentifier(fields.Adhaar_Number)
            /\ DigitsOf(fields.Adhaar_Number) = SubSeq(clean, Min(S), Min(S) + 11)

\* the value of a digit character
DigitValue(c) == CHOOSE n \in 0..9 : Ch("0123456789", n + 1) = c

RECURSIVE NumberValue(_)
\* the value of a string of digits
NumberValue(w) ==
  IF w = "" THEN 0
  ELSE 10 * NumberValue(SubSeq(w, 1, Len(w) - 1)) + DigitValue(Ch(w, Len(w)))

\* w is written with at least lo and at most hi digits and its value lies
\* in vals
IsNumberIn(w, lo, hi, vals) ==
  Len(w) \in lo..hi /\ AllDigits(w) /\ NumberValue(w) \in vals

\* s[i..j-1] is one '/' or '-' with only whitespace around it
IsDateSeparator(s, i, j) ==
  \E k \in i..(j - 1) :
    /\ Ch(s, k) \in {"/", "-"}
    /\ \A l \in i..(j - 1) : l # k => IsSpace(Ch(s, l))

\* a day (1..31) is written in s[a..i-1]
IsDayAt(s, a, i) == IsNumberIn(SubSeq(s, a, i - 1), 1, 2, 1..31)

\* a month (1..12) is written in s[j..k-1]
IsMonthAt(s, j, k) == IsNumberIn(SubSeq(s, j, k - 1), 1, 2, 1..12)

\* a year (1900..2099) is written in the 4 characters from y on
IsYearAt(s, y) ==
  y + 3 <= Len(s) /\ IsNumberIn(SubSeq(s, y, y + 3), 4, 4, 1900..2099)

\* The ways to cut a date that starts at a into day, separator, month and
\* separator, as the positions <<i, j, k, y>> where the first separator, the
\* month, the second separator and the year begin.  A flattened text has no
\* two whitespace characters in a row, so a separator has at most 3
\* characters.
DateCuts(s, a) ==
  {t \in (a + 1..a + 2) \X (a + 2..a + 5) \X (a + 3..a + 7) \X (a + 4..a + 10) :
     /\ t[4] + 3 <= Len(s)
     /\ t[1] < t[2] /\ t[2] < t[3] /\ t[3] < t[4]
     /\ t[2] - t[1] <= 3 /\ t[3] - t[2] <= 2 /\ t[4] - t[3] <= 3
     /\ IsDayAt(s, a, t[1])
     /\ IsDateSeparator(s, t[1], t[2])
     /\ IsMonthAt(s, t[2], t[3])
     /\ IsDateSeparator(s, t[3], t[4])
     /\ IsYearAt(s, t[4])}

\* a day/month/year date starts at a
IsDateStart(s, a) ==
  /\ IsDigit(Ch(s, a))
  /\ \E i \in (a + 1)..(a + 2) :
       /\ i <= Len(s)
       /\ IsDayAt(s, a, i)
       /\ \E j \in (i + 1)..(i + 3) :
            /\ j <= Len(s)
            /\ IsDateSeparator(s, i, j)
            /\ \E k \in (j + 1)..(j + 2) :
                 /\ k <= Len(s)
                 /\ IsMonthAt(s, j, k)
                 /\ \E y \in (k + 1)..(k + 3) :
                      IsDateSeparator(s, k, y) /\ IsYearAt(s, y)

\* the positions of s where a date starts
DateStarts(s) == {a \in 1..Len(s) : IsDateStart(s, a)}

DateCutAt(s, a) == CHOOSE t \in DateCuts(s, a) : TRUE

\* the position after the date that starts at a
DateEnd(s, a) == DateCutAt(s, a)[4] + 4

\* the date that starts at a, as day/month/year with its digits as written
DateText(s, a) ==
  LET t == DateCutAt(s, a)
  IN SubSeq(s, a, t[1] - 1) \o "/" \o SubSeq(s, t[2], t[3] - 1)
       \o "/" \o SubSeq(s, t[4], t[4] + 3)

\* The non-overlapping left-to-right matches: a date start is taken exactly
\* when it does not lie inside a date taken before it.
TakenDates(s) ==
  LET D == DateStarts(s)
      end == [a \in D |-> DateEnd(s, a)]
  IN CHOOSE T \in SUBSET D :
       \A a \in D : a \in T <=> \A b \in T : ~(b < a /\ a < end[b])

\* C5: extract_dob returns "" when the flattened text holds no day/month/year
\* date, and otherwise the last of the non-overlapping left-to-right matches,
\* as day/month/year joined by "/" with the digits as written; the text
\* "12/05/2020 ... 23/11/1990" gives "23/11/1990".
C5_LastDate ==
  Extracted =>
    LET clean == normalize_text(text)
        D == DateStarts(clean)
    IN /\ fields.DOB = IF D = {} THEN ""
                       ELSE DateText(clean, Max(TakenDates(clean)))
       /\ text = "12/05/2020 ... 23/11/1990" => fields.DOB = "23/11/1990"

\* two matches are taken, and a later date start that overlaps a taken match
\* is passed over
C5_Witness ==
  /\ pc = "fields"
  /\ LET clean == normalize_text(text)
         T == TakenDates(clean)
     IN /\ Cardinality(T) >= 2
        /\ \E a \in DateStarts(clean) : a > Max(T)
        /\ DateText(clean, Min(T)) # DateText(clean, Max(T))
  /\ fields.DOB # ""

\* the recognized lines, trimmed, without the empty ones
TrimmedLines ==
  LET lines == AllLines(result)
  IN SelectSeq([i \in 1..Len(lines) |-> Strip(lines[i])], LAMBDA l : l # "")

\* l is the marker "to" in any letter case
IsMarker(l) ==
  Len(l) = 2 /\ Ch(l, 1) \in {"t", "T"} /\ Ch(l, 2) \in {"o", "O"}

\* C6: extract_name uses only the first of the non-empty trimmed lines that
\* equals "to" in any letter case: the name is the line two places after it,
\* and "" when there is no marker or no line two places after the first one.
C6_FirstMarker ==
  Extracted =>
    LET lines == TrimmedLines
        M == {i \in 1..Len(lines) : IsMarker(lines[i])}
    IN fields.Name = IF M = {} \/ Min(M) + 2 > Len(lines) THEN ""
                     ELSE lines[Min(M) + 2]

\* a second marker line follows the first, and a name is found
C6_Witness ==
  /\ pc = "fields"
  /\ LET lines == TrimmedLines
         M == {i \in 1..Len(lines) : IsMarker(lines[i])}
     IN Cardinality(M) >= 2 /\ Min(M) + 2 <= Len(lines)
  /\ fields.Name = "Ramesh Kumar"

\* a mobile keyword (mobile, moblle, moblie in any case) starts at p of s
IsMobileKeyword(s, p) ==
  /\ p + 5 <= Len(s)
  /\ \E w \in {"mobile", "moblle", "moblie"} :
       \A i \in 1..6 : ToLower(Ch(s, p + i - 1)) = Ch(w, i)

\* 10 digits, the first in 6..9, start at q of s
IsMobileDigits(s, q) ==
  /\ q + 9 <= Len(s)
  /\ \A i \in q..(q + 9) : IsDigit(Ch(s, i))
  /\ Ch(s, q) \in {"6", "7", "8", "9"}

\* the keyword at p is followed within at most 10 non-digits by a mobile
\* number starting at q
IsMobileAnchored(s, p, q) ==
  /\ IsMobileKeyword(s, p)
  /\ q - (p + 6) \in 0..10
  /\ \A i \in (p + 6)..(q - 1) : ~IsDigit(Ch(s, i))
  /\ IsMobileDigits(s, q)

\* the keyword positions that are followed by a mobile number
MobileAnchors(s) ==
  {p \in 1..Len(s) : \E q \in (p + 6)..(p + 16) : IsMobileAnchored(s, p, q)}

\* the word-boundary-delimited 10-digit numbers starting with 6..9
StandaloneMobiles(s) ==
  {q \in 1..Len(s) :
     /\ IsMobileDigits(s, q)
     /\ (q = 1 \/ ~IsWord(Ch(s, q - 1)))
     /\ (q + 10 > Len(s) \/ ~IsWord(Ch(s, q + 10)))}

\* C7: extract_mobile_number returns the number after the first mobile
\* keyword that has one within 10 non-digits; without such a keyword the
\* first standalone 10-digit number starting with 6..9; otherwise "".  A
\* non-empty result has 10 digits and starts with 6..9, and the text
\* "Moblle : 9123456789" gives "9123456789".
C7_MobileFallback ==
  Extracted =>
    LET clean == normalize_text(text)
        A == MobileAnchors(clean)
        B == StandaloneMobiles(clean)
        q == CHOOSE q \in (Min(A) + 6)..(Min(A) + 16) : IsMobileAnchored(clean, Min(A), q)
    IN /\ fields.Mobile = IF A # {} THEN SubSeq(clean, q, q + 9)
                          ELSE IF B # {} THEN SubSeq(clean, Min(B), Min(B) + 9)
                          ELSE ""
       /\ (fields.Mobile = ""
             \/ (IsMobileDigits(fields.Mobile, 1) /\ Len(fields.Mobile) = 10))
       /\ text = "Moblle : 9123456789" => fields.Mobile = "9123456789"

\* a standalone number stands before the keyword, and the keyword's number
\* is the one returned
C7_Witness ==
  /\ pc = "fields"
  /\ LET clean == normalize_text(text)
         A == MobileAnchors(clean)
     IN /\ A # {}
        /\ \E b \in StandaloneMobiles(clean) :
             b < Min(A) /\ SubSeq(clean, b, b + 9) # fields.Mobile
  /\ fields.Mobile # ""

\* some cased form of word occurs in s
ContainsAnyCase(s, word) ==
  \E p \in 1..(Len(s) - Len(word) + 1) :
    \A i \in 1..Len(word) : ToLower(Ch(s, p + i - 1)) = Ch(word, i)

\* a standalone run of exactly 6 digits starts at c
IsStandalone6(s, c) ==
  /\ c + 5 <= Len(s)
  /\ \A i \in c..(c + 5) : IsDigit(Ch(s, i))
  /\ (c = 1 \/ ~IsWord(Ch(s, c - 1)))
  /\ (c + 6 > Len(s) \/ ~IsWord(Ch(s, c + 6)))

\* an identifier already written as dddd dddd dddd stands alone at c
IsStandaloneGrouped(s, c) ==
  /\ IsSpacedNumber(s, c, c + 14)
  /\ (c = 1 \/ ~IsWord(Ch(s, c - 1)))
  /\ (c + 14 > Len(s) \/ ~IsWord(Ch(s, c + 14)))

RecordKeys ==
  {"aadhaar_number", "full_name", "gender", "dob", "mobile_number", "pincode"}

\* C8: for every text, the empty one included, run_aadhaar_ocr returns a
\* record with exactly the six keys, each mapped to a string, and a field
\* whose pattern does not occur in the text is the empty string.
C8_SixKeys ==
  pc = "done" =>
    LET clean == normalize_text(text)
        lines == TrimmedLines
    IN /\ DOMAIN record = RecordKeys
       /\ \A k \in RecordKeys : record[k] \in STRING
       /\ (\A i \in 1..Len(lines) : ~IsMarker(lines[i])) => record.full_name = ""
       /\ ~ContainsAnyCase(text, "male") => record.gender = ""
       /\ DateStarts(clean) = {} => record.dob = ""
       /\ (MobileAnchors(clean) = {} /\ StandaloneMobiles(clean) = {})
            => record.mobile_number = ""
       /\ ( /\ KeywordAnchored(clean) = {}
            /\ Standalone12(clean) = {}
            /\ \A c \in 1..Len(clean) : ~IsStandaloneGrouped(clean, c) )
            => record.aadhaar_number = ""
       /\ (\A c \in 1..Len(text) : ~IsStandalone6(text, c)) => record.pincode = ""
       /\ text = "" => \A k \in RecordKeys : record[k] = ""

\* the record of a text in which no field's pattern occurs, and of one in
\* which digits occur but no field's pattern
C8_Witness ==
  /\ pc = "done"
  /\ text # ""
  /\ \E i \in 1..Len(text) : IsDigit(Ch(text, i))
  /\ \A k \in RecordKeys : record[k] = ""

\* C9: extract_gender returns "FEMALE" for a text containing "female" in any
\* letter case, "MALE" for one containing "male" but not "female", and ""
\* otherwise; the record's gender is "", "Male" or "Female" accordingly.
C9_Gender ==
  LET expected == IF ContainsAnyCase(text, "female") THEN "FEMALE"
                  ELSE IF ContainsAnyCase(text, "male") THEN "MALE"
                  ELSE ""
  IN /\ pc \in {"fields", "done"} => fields.GENDER = expected
     /\ pc = "done" =>
          /\ record.gender \in {"", "Male", "Female"}
          /\ record.gender = (CASE expected = "FEMALE" -> "Female"
                                [] expected = "MALE" -> "Male"
                                [] OTHER -> "")

\* a text with "female" and, apart from it, a "male" of its own
C9_Witness ==
  /\ pc = "done"
  /\ ContainsAnyCase(text, "female")
  /\ \E p \in 1..Len(text) :
       /\ StartsAt(Lower(text), p, "male")
       /\ ~StartsAt(Lower(text), p - 2, "female")
  /\ record.gender = "Female"

\* C10: normalize_aadhaar is idempotent and its result holds only digits:
\* normalizing the result again changes nothing.
C10_Idempotent ==
  /\ pc \in {"once", "twice"} => AllDigits(norm1)
  /\ pc = "twice" => norm2 = norm1

\* a text with digits and other characters has been normalized twice
C10_Witness ==
  /\ pc = "twice"
  /\ norm1 # ""
  /\ norm1 # text
  /\ Len(norm1) < Len(text)

\* the standalone runs of exactly 6 digits of s
Standalone6(s) == {c \in 1..Len(s) : IsStandalone6(s, c)}

\* C11: the pincode is the first word-boundary-delimited run of exactly 6
\* digits of the text as given (lines kept), and "" when the text has none;
\* 6 digits inside a longer digit run are never returned.
C11_Pincode ==
  Extracted =>
    LET S == Standalone6(text)
    IN /\ fields.Pincode = IF S = {} THEN "" ELSE SubSeq(text, Min(S), Min(S) + 5)
       /\ fields.Pincode # "" =>
            /\ Len(fields.Pincode) = 6
            /\ AllDigits(fields.Pincode)
       /\ (S = {} /\ \E p \in 1..Len(text) : DigitsAt(text, p, 7)) => fields.Pincode = ""

\* a longer digit run stands before the standalone 6 digits that are returned
C11_Witness ==
  /\ pc = "fields"
  /\ fields.Pincode = "500001"
  /\ \E p \in 1..Len(text) :
       /\ DigitsAt(text, p, 7)
       /\ p < Min(Standalone6(text))

\* the first position of s where the 12 digits of the candidate at c occur
FirstOccurrence(s, c) ==
  Min({p \in 1..c : \A i \in 0..11 : Ch(s, p + i) = Ch(s, c + i)})

\* the candidate at c is skipped: the window around the first occurrence of
\* its digits holds a 16-digit run
IsSkipped(s, c) == Holds16Digits(WindowAround(s, FirstOccurrence(s, c)))

\* the 12 digits at f are part of a longer digit run
InLongerRun(s, f) ==
  \/ (f > 1 /\ IsDigit(Ch(s, f - 1)))
  \/ (f + 12 <= Len(s) /\ IsDigit(Ch(s, f + 12)))

\* C13: in tier 2 the exclusion window is taken around the first occurrence
\* of the candidate's 12 digits in the flattened text. (i) A candidate whose
\* first occurrence is its own standalone position is never skipped; (ii) a
\* candidate is skipped only when the same 12 digits occur earlier inside a
\* longer digit run. With no keyword-anchored number, the identifier is the
\* first candidate that is not skipped, regrouped, and no candidate's digits
\* are returned when all are skipped.
C13_FirstOccurrenceWindow ==
  Extracted =>
    LET clean == normalize_text(text)
        S == Standalone12(clean)
        kept == {c \in S : ~IsSkipped(clean, c)}
    IN /\ \A c \in S :
            /\ FirstOccurrence(clean, c) = c => ~IsSkipped(clean, c)
            /\ IsSkipped(clean, c) =>
                 /\ FirstOccurrence(clean, c) < c
                 /\ InLongerRun(clean, FirstOccurrence(clean, c))
       /\ (KeywordAnchored(clean) = {} /\ kept # {}) =>
            /\ IsGroupedIdentifier(fields.Adhaar_Number)
            /\ DigitsOf(fields.Adhaar_Number) = SubSeq(clean, Min(kept), Min(kept) + 11)
       /\ (KeywordAnchored(clean) = {} /\ kept = {}) =>
            \/ fields.Adhaar_Number = ""
            \/ \E p \in 1..Len(clean) :
                 /\ IsStandaloneGrouped(clean, p)
                 /\ fields.Adhaar_Number = SubSeq(clean, p, p + 13)

\* a standalone candidate is skipped because its digits stand earlier inside
\* a 16-digit run, and no identifier is returned
C13_Witness ==
  /\ pc = "fields"
  /\ fields.Adhaar_Number = ""
  /\ LET clean == normalize_text(text)
     IN /\ KeywordAnchored(clean) = {}
        /\ \E c \in Standalone12(clean) :
             /\ IsSkipped(clean, c)
             /\ FirstOccurrence(clean, c) < c

\* the request has been answered
Responded == pc = "responded"

\* an image_url was provided with the request
UrlProvided == Truthy(request.image_url)

\* the 'provide input' failure: HTTP 400 in the handler, or the ValueError
\* of call_aadhaar_ocr
ProvideInputFailure ==
  \/ (response # None /\ response[1].status_code = 400)
  \/ raised = Some("Provide image_bytes or image_url")

\* C12 as stated: whenever a file is uploaded, whatever its content and with
\* or without image_url, the remote OCR service is called with that file's
\* bytes; with no file but an image_url, what is downloaded is what is sent;
\* the 'provide input' failure occurs only when neither was provided.
C12_AsStated ==
  /\ (Responded /\ request.file # None) =>
       /\ posted # None
       /\ posted[1].file_bytes = request.file[1].content
  /\ (Responded /\ request.file = None /\ UrlProvided /\ fetched # None) =>
       /\ posted # None
       /\ posted[1].file_bytes = fetched[1]
  /\ ProvideInputFailure => (request.file = None /\ ~UrlProvided)

====
